---- MODULE Spec2Model ----
(***************************************************************************)
(* Model of ForegroundObjectPlacementRandomizer                            *)
(* (src/HumanSDG/HumanSDG_020_ForegroundObjectPalcementRandomizer.py).     *)
(*                                                                         *)
(* One randomizer is constructed (__init__) and                            *)
(* foreground_object_placement_randomize() is invoked on it once, as the   *)
(* module's main block does (lines 220-222).  The invocation is followed   *)
(* through its sequential steps by pc.                                     *)
(*                                                                         *)
(* Coordinates are integers.  A point is a triple <<x, y, z>>.  The camera *)
(* transforms (matrix_world, matrix_basis) are translations, kept as the   *)
(* triple of the camera's location; the camera looks down its local -Z     *)
(* axis and its lens is such that the view frame at depth z spans          *)
(* [-z, z] in local x and in local y.                                      *)
(***************************************************************************)
EXTENDS Integers, Sequences, FiniteSets, TLC

(***************************************************************************)
(* Bounds of the model.                                                    *)
(***************************************************************************)
\* Largest number of points one sampling pass returns.
MaxPts == 3
\* Largest value of num_foreground_object_in_scene_range["max"].
MaxCount == 3
\* Largest number of *.blend files in the asset folder.
MaxPool == 3

\* Calls of foreground_object_placement_randomize on one randomizer.
MaxInvocations == 2
\* Calls of Initializer.init() in one Blender session.
MaxInitCalls == 2

(***************************************************************************)
(* Values of the program.                                                  *)
(***************************************************************************)
\* Python's None for the integer attributes (lines 61, 67).
None == -1

\* foreground_area (line 52): extents of the sampling domain.
foreground_area == <<4, 4, 2>>

\* foreground_poisson_disk_sampling_radius (line 53).
foreground_poisson_disk_sampling_radius == 1

\* Raw sample positions the sampler may return, all inside the domain
\* [0,4] x [0,4] x [0,2].  After recentering and seen from a camera at
\* <<0,0,5>> they are: three points strictly inside the frame at depth 2,
\* one on the frame's x = 0 edge, one on its y = 1 edge, one at depth 3 and
\* one at depth 1.
SamplePoints ==
    { <<2, 2, 1>>, <<1, 3, 1>>, <<3, 1, 1>>,
      <<0, 2, 1>>, <<2, 4, 1>>,
      <<2, 2, 0>>, <<2, 2, 2>> }

\* Location of the camera object (its matrix_basis), and a cached
\* matrix_world left behind by an earlier move of the camera.
CameraBasis == <<0, 0, 5>>
StaleWorld == <<1, 0, 5>>

\* (clip_start, clip_end) pairs of the camera data: a physical one, one with
\* near = far and one with near > far.
ClipPairs == { <<1, 3>>, <<2, 2>>, <<3, 1>> }

\* num_foreground_object_in_scene_range values: {"min": lo, "max": hi}.
CountRanges ==
    { <<lo, hi>> \in (0..MaxCount) \X (0..MaxCount) : lo <= hi /\ hi - lo <= 1 }

(***************************************************************************)
(* Sequence helpers.                                                       *)
(***************************************************************************)
Range(s) == { s[i] : i \in DOMAIN s }

IsInjective(s) == \A i, j \in DOMAIN s : s[i] = s[j] => i = j

\* All sequences over S of length exactly k without repeated elements.
InjectiveSeqs(S, k) == { s \in [1..k -> S] : IsInjective(s) }

VARIABLES
    init_calls,             \* calls of Initializer.init() that have returned
    bpy_data,               \* bpy.data and the scene of bpy.context
    invocation,             \* which call of foreground_object_placement_randomize
    pc,                     \* position inside foreground_object_placement_randomize
    count_range,            \* num_foreground_object_in_scene_range, <<min, max>>
    num,                    \* __num_foreground_object_in_scene
    n_particle,             \* __n_particle
    particle_coordinates,   \* __particle_coordinates
    can_see_in_view,        \* __particle_coordinates_can_see_in_view
    matrix_world,           \* camera object: matrix_world
    matrix_basis,           \* camera object: matrix_basis
    clip_start,             \* __clip_start
    clip_end,               \* __clip_end
    asset_folder,           \* number of *.blend files in the asset folder
    collection,             \* objects of HumanCollection, in link order
    fg_location,            \* fg_location (line 202)
    n_particle_prev,        \* the count printed at line 119 ("nParticle Prev")
    exit_reason             \* message printed before sys.exit()

vars == << init_calls, bpy_data, invocation, pc, count_range, num, n_particle, particle_coordinates,
           can_see_in_view, matrix_world, matrix_basis, clip_start, clip_end,
           asset_folder, collection, fg_location, n_particle_prev, exit_reason >>

camera == << matrix_world, matrix_basis, clip_start, clip_end >>

(***************************************************************************)
(* HumanSDG_000_Initializer.py.  bpy.data is modelled by the names of its  *)
(* data blocks, kind by kind, and by the attributes init() reads or        *)
(* writes; the scene of bpy.context is the scene named "Scene".            *)
(***************************************************************************)
\* None, for an attribute that refers to a data block.
Unset == ""

\* The attributes of bpy.data that are data collections (lines 47-50).
Kinds == { "cameras", "collections", "meshes", "objects", "scenes",
           "screens", "texts", "worlds" }

\* Lines 35-41: the attributes of the Initializer.
render_engine == "CYCLES"
render_device == "GPU"
collection_need_create ==
    << "BackgroundObjectCollection", "HumanCollection", "OccluderCollection" >>
camera_location == <<0, 0, 8>>
camera_focal_length == 35
img_resolution_x == 640
img_resolution_y == 480

\* The suffix Blender gives to the n-th block that asks for a taken name.
Suffix == << "", ".001", ".002", ".003", ".004" >>

\* The name bpy.data.<kind>.new(name) gives the new block: the name asked
\* for, or the first suffixed one that is free.
new_name(existing, name) ==
    name \o Suffix[CHOOSE n \in 1..Len(Suffix) :
                      /\ name \o Suffix[n] \notin existing
                      /\ \A m \in 1..(n - 1) : name \o Suffix[m] \in existing]

\* f restricted to the arguments in S.
Restrict(f, S) == [ x \in (DOMAIN f) \cap S |-> f[x] ]

\* Line 50: hasattr(data_structure, "remove"); bpy.data.screens has none.
has_remove(data_collection) == data_collection # "screens"

\* Line 51 with the scene collections exempted as well.
not_removed_with_collections == { "texts", "collections" }

\* Line 51: the data collections that are left alone.
not_removed == { "texts" }

\* Line 55: the default scene is skipped.
is_default_scene(data_collection, block) ==
    data_collection = "scenes" /\ block = "Scene"

\* __remove_all_data, lines 44-57.  Removing a block clears the references
\* to it, and an object goes with its data.
remove_all_data(d) ==
    LET left == [ k \in Kinds |->
                    IF has_remove(k) /\ k \notin not_removed
                    THEN { b \in d.blocks[k] : is_default_scene(k, b) }
                    ELSE d.blocks[k] ]
        objects == { o \in left["objects"] :
                       d.object_data[o][2] \in left[d.object_data[o][1]] }
        blocks == [ left EXCEPT !["objects"] = objects ]
        Ref(k, b) == IF b \in blocks[k] THEN b ELSE Unset
    IN  [ d EXCEPT
            !.blocks = blocks,
            !.lens = Restrict(@, blocks["cameras"]),
            !.object_data = Restrict(@, objects),
            !.location = Restrict(@, objects),
            !.world_keys = Restrict(@, blocks["worlds"]),
            !.scene.world = Ref("worlds", @),
            !.scene.camera = Ref("objects", @),
            !.scene.objects = @ \cap objects,
            !.scene.children = @ \cap blocks["collections"] ]

\* __remove_custom_properties, lines 60-63.
remove_custom_properties(d) == [ d EXCEPT !.scene.keys = { } ]

\* init, lines 66-101.
init(d) ==
    LET cleaned == remove_custom_properties(remove_all_data(d))
        new_world == new_name(cleaned.blocks["worlds"], "World")
        cam == new_name(cleaned.blocks["cameras"], "Camera")
        cam_ob == new_name(cleaned.blocks["objects"], "Camera")
        new_collections ==
            { new_name(cleaned.blocks["collections"],
                       collection_need_create[i]) :
                i \in DOMAIN collection_need_create }
        created ==
            [ cleaned EXCEPT
                !.blocks["worlds"] = @ \cup { new_world },          \* 77
                !.scene.world = new_world,                          \* 78
                !.world_keys = (new_world :> { "category_id" }) @@ @,
                !.blocks["cameras"] = @ \cup { cam },               \* 82
                !.lens = (cam :> 50) @@ @,
                !.blocks["objects"] = @ \cup { cam_ob },            \* 83
                !.object_data = (cam_ob :> << "cameras", cam >>) @@ @,
                !.scene.objects = @ \cup { cam_ob },                \* 84
                !.scene.camera = cam_ob,                            \* 85
                !.location = (cam_ob :> camera_location) @@ @,      \* 86
                !.scene.resolution_x = img_resolution_x,            \* 90
                !.scene.resolution_y = img_resolution_y,            \* 91
                !.blocks["collections"] = @ \cup new_collections,   \* 95
                !.scene.children = @ \cup new_collections,
                !.scene.engine = render_engine,                     \* 98
                !.scene.device = render_device ]                    \* 99
    IN  [ created EXCEPT !.lens["Camera"] = camera_focal_length ]   \* 88

\* What a Blender file holds before init() is called: the default scene,
\* the screens of the user interface, and any of a second scene, a script, one
\* or two worlds, a camera, a cube, two collections and a custom property.
PriorChoices ==
    BOOLEAN \X (SUBSET { "script.py" })
            \X { { }, { "World" }, { "World", "World.001" } }
            \X BOOLEAN \X BOOLEAN
            \X (SUBSET { "Collection", "HumanCollection" })
            \X { { "Layout" }, { "Layout", "Scripting" } }
            \X (SUBSET { "frame_id" })
            \X { "BLENDER_EEVEE", "CYCLES" }

Prior(c) ==
    LET cameras == IF c[4] THEN { "Camera" } ELSE { }
        meshes == IF c[5] THEN { "Cube" } ELSE { }
        objects == cameras \cup meshes
    IN  [ blocks |->
            [ k \in Kinds |->
                CASE k = "scenes" ->
                        IF c[1] THEN { "Scene", "Scene.001" } ELSE { "Scene" }
                  [] k = "texts" -> c[2]
                  [] k = "worlds" -> c[3]
                  [] k = "cameras" -> cameras
                  [] k = "meshes" -> meshes
                  [] k = "objects" -> objects
                  [] k = "collections" -> c[6]
                  [] k = "screens" -> c[7] ],
          lens |-> [ b \in cameras |-> 50 ],
          object_data |->
            [ o \in objects |->
                IF o = "Camera" THEN << "cameras", o >> ELSE << "meshes", o >> ],
          location |-> [ o \in objects |-> <<0, 0, 0>> ],
          world_keys |-> [ w \in c[3] |-> { } ],
          scene |->
            [ world |-> IF c[3] = { } THEN Unset ELSE "World",
              camera |-> IF c[4] THEN "Camera" ELSE Unset,
              objects |-> objects,
              children |-> c[6],
              keys |-> c[8],
              resolution_x |-> 1920,
              resolution_y |-> 1080,
              engine |-> c[9],
              device |-> "CPU" ] ]

PriorData == { Prior(c) : c \in PriorChoices }

\* Blender's startup file: a camera, a cube, one world, one collection.
StartupFile ==
    Prior(<< FALSE, { }, { "World" }, TRUE, TRUE, { "Collection" },
             { "Layout", "Scripting" }, { }, "BLENDER_EEVEE" >>)

(***************************************************************************)
(* __init__ (lines 50-69): state of a freshly constructed randomizer in a  *)
(* scene whose HumanCollection is empty.                                   *)
(***************************************************************************)
Init ==
    /\ init_calls = 1
    /\ bpy_data = init(StartupFile)
    /\ invocation = 1
    /\ pc = "start"
    /\ count_range \in CountRanges
    /\ num = None
    /\ n_particle = None
    /\ particle_coordinates = << >>
    /\ can_see_in_view = << >>
    /\ matrix_basis = CameraBasis
    /\ matrix_world \in { CameraBasis, StaleWorld }
    /\ \E c \in ClipPairs : clip_start = c[1] /\ clip_end = c[2]
    /\ asset_folder \in 0..MaxPool
    /\ collection = << >>
    /\ fg_location = << >>
    /\ n_particle_prev = None
    /\ exit_reason = "none"

(***************************************************************************)
(* Line 191: random.randint(min, max), both ends included.                 *)
(***************************************************************************)
\* randint with its upper end one too far.
randint_past_max(a, b) == a..(b + 1)

\* random.randint(a, b): an integer N with a <= N <= b.
randint(a, b) == a..b

Randint ==
    /\ pc = "start"
    /\ \E n \in randint(count_range[1], count_range[2]) : num' = n
    /\ pc' = "while"
    /\ UNCHANGED << init_calls, bpy_data, invocation, count_range, n_particle, particle_coordinates,
                    can_see_in_view, matrix_world, matrix_basis, clip_start,
                    clip_end, asset_folder, collection, fg_location,
                    n_particle_prev, exit_reason >>

(***************************************************************************)
(* poissonDiscSampling.poisson_disc_sampling (module util, called at lines *)
(* 114-116): a sequence of points of the domain, pairwise at least radius  *)
(* apart; the sequence may be empty (comment at lines 111-112).            *)
(***************************************************************************)
DistSq(p, q) ==
    (p[1] - q[1]) * (p[1] - q[1]) + (p[2] - q[2]) * (p[2] - q[2])
        + (p[3] - q[3]) * (p[3] - q[3])

InDomain(p, size) ==
    \A k \in 1..3 : 0 <= p[k] /\ p[k] <= size[k]

poisson_disc_sampling(radius, sample_domain_size) ==
    { s \in UNION { InjectiveSeqs(SamplePoints, k) : k \in 0..MaxPts } :
        /\ \A i \in DOMAIN s : InDomain(s[i], sample_domain_size)
        /\ \A i, j \in DOMAIN s :
              i # j => DistSq(s[i], s[j]) >= radius * radius }

\* The call of lines 114-116: what one sampling pass may return.
SamplingResults ==
    { s : s \in poisson_disc_sampling(foreground_poisson_disk_sampling_radius,
                                      foreground_area) }

(***************************************************************************)
(* __posson_disc_sampling, lines 109-121: the retry loop, then the print   *)
(* of the count and the recentering of the samples.                        *)
(***************************************************************************)
loc_offset(size) == << size[1] \div 2, size[2] \div 2, -2 >>

Minus(p, off) == << p[1] - off[1], p[2] - off[2], p[3] - off[3] >>

\* Line 121.
Recentered(coords, size) ==
    [ i \in DOMAIN coords |-> Minus(coords[i], loc_offset(size)) ]

\* The condition of line 113 testing only for None.
LoopConditionNoneOnly(n) == n = None

\* The condition of line 113 never false.
LoopConditionAlways(n) == n = None \/ n >= 0

\* Line 113: the condition of the while loop.
LoopCondition(n) == n = None \/ n = 0

\* Line 113, and on leaving the loop lines 119-121.
SamplingLoopTest ==
    /\ pc = "while"
    /\ IF LoopCondition(n_particle)
       THEN /\ pc' = "sample"
            /\ UNCHANGED << particle_coordinates, n_particle_prev >>
       ELSE /\ n_particle_prev' = n_particle
            /\ particle_coordinates' =
                  Recentered(particle_coordinates, foreground_area)
            /\ pc' = "filter"
    /\ UNCHANGED << init_calls, bpy_data, invocation, count_range, num, n_particle, can_see_in_view,
                    matrix_world, matrix_basis, clip_start, clip_end,
                    asset_folder, collection, fg_location, exit_reason >>

\* Lines 114-117: one sampling pass, then back to the loop test.
SamplingPass ==
    /\ pc = "sample"
    /\ \E s \in SamplingResults :
          /\ particle_coordinates' = s
          /\ n_particle' = Len(s)
    /\ pc' = "while"
    /\ UNCHANGED << init_calls, bpy_data, invocation, count_range, num, can_see_in_view, matrix_world,
                    matrix_basis, clip_start, clip_end, asset_folder,
                    collection, fg_location, n_particle_prev, exit_reason >>

(***************************************************************************)
(* bpy_extras.object_utils.world_to_camera_view (called at line 173) for a *)
(* perspective camera whose world transform is the translation mw.  The    *)
(* result is [x, y, z]; x and y are fractions <<numerator, denominator>>.  *)
(*   co_local = inverse(matrix_world) @ coord ;  z = -co_local.z           *)
(*   z = 0: (0.5, 0.5, 0)                                                  *)
(*   otherwise the frame at depth z has min = -z, max = z and              *)
(*   x = (co_local.x - min_x) / (max_x - min_x), y likewise.               *)
(***************************************************************************)
world_to_camera_view(mw, coord) ==
    LET co_local == Minus(coord, mw)
        z == 0 - co_local[3]
    IN  IF z = 0
        THEN [ x |-> <<1, 2>>, y |-> <<1, 2>>, z |-> 0 ]
        ELSE [ x |-> << co_local[1] + z, 2 * z >>,
               y |-> << co_local[2] + z, 2 * z >>,
               z |-> z ]

\* 0.0 < f, for a fraction f = <<n, d>> with d # 0.
FracPos(f) == (f[1] > 0 /\ f[2] > 0) \/ (f[1] < 0 /\ f[2] < 0)

\* f < 1.0, for a fraction f = <<n, d>> with d # 0.
FracLtOne(f) == IF f[2] > 0 THEN f[1] < f[2] ELSE f[1] > f[2]

\* f <= 1.0 and 0.0 <= f.
FracLeOne(f) == IF f[2] > 0 THEN f[1] <= f[2] ELSE f[1] >= f[2]
FracNonNeg(f) == f[1] = 0 \/ FracPos(f)

\* The test of line 175 with its comparisons made non-strict.
InsideFrustumInclusive(co_ndc, near, far) ==
    /\ FracNonNeg(co_ndc.x) /\ FracLeOne(co_ndc.x)
    /\ FracNonNeg(co_ndc.y) /\ FracLeOne(co_ndc.y)
    /\ near <= co_ndc.z /\ co_ndc.z <= far

\* Line 175.
InsideFrustum(co_ndc, near, far) ==
    /\ FracPos(co_ndc.x) /\ FracLtOne(co_ndc.x)
    /\ FracPos(co_ndc.y) /\ FracLtOne(co_ndc.y)
    /\ near < co_ndc.z /\ co_ndc.z < far

\* Lines 170-176: the loop over the particles, appending to the list.
RECURSIVE AppendVisible(_, _, _, _, _)
AppendVisible(coords, seen, mw, near, far) ==
    IF coords = << >>
    THEN seen
    ELSE AppendVisible(
            Tail(coords),
            IF InsideFrustum(world_to_camera_view(mw, Head(coords)), near, far)
            THEN Append(seen, Head(coords))
            ELSE seen,
            mw, near, far)

\* Line 168 with the assignment reversed: <<matrix_world, matrix_basis>> after.
UpdateCameraReversed(mw, mb) == << mw, mw >>

\* Line 168: camera.matrix_world = camera.matrix_basis.
UpdateCamera(mw, mb) == << mb, mb >>

(***************************************************************************)
(* __check_particle_in_cam_view, lines 158-180.                            *)
(***************************************************************************)
CheckParticleInCamView ==
    /\ pc = "filter"
    /\ matrix_world' = UpdateCamera(matrix_world, matrix_basis)[1]
    /\ matrix_basis' = UpdateCamera(matrix_world, matrix_basis)[2]
    /\ can_see_in_view' =
          AppendVisible(particle_coordinates, can_see_in_view,
                        matrix_world', clip_start, clip_end)
    /\ particle_coordinates' = can_see_in_view'
    /\ n_particle' = Len(can_see_in_view')
    /\ pc' = "import"
    /\ UNCHANGED << init_calls, bpy_data, invocation, count_range, num, clip_start, clip_end, asset_folder,
                    collection, fg_location, n_particle_prev, exit_reason >>

(***************************************************************************)
(* The asset folder: files 1..asset_folder in the order glob.glob lists    *)
(* them (line 133).  Every human asset file holds one armature and one     *)
(* mesh; the files differ in which of the two comes first.                 *)
(***************************************************************************)
foreground_object_path_list(n) == [ i \in 1..n |-> i ]

AssetObjects(filepath) ==
    IF filepath % 2 = 1 THEN << "ARMATURE", "MESH" >> ELSE << "MESH", "ARMATURE" >>

\* __load_object, lines 86-106: the objects of the file appended to the
\* collection; they keep the location stored in the file (here << >>).
load_object(coll, filepath) ==
    coll \o [ i \in DOMAIN AssetObjects(filepath) |->
                [ source |-> filepath,
                  type |-> AssetObjects(filepath)[i],
                  location |-> << >> ] ]

RECURSIVE LoadAll(_, _)
LoadAll(coll, paths) ==
    IF paths = << >> THEN coll
    ELSE LoadAll(load_object(coll, Head(paths)), Tail(paths))

\* The test of line 127 with its operands exchanged.
CapacityCheckFailsSwapped(n, k) == k < n

\* Line 127.
CapacityCheckFails(n, k) == n < k

\* The test of line 80 off by one.
ErrorCheckFailsBelowZero(num_asset_in_folder) == num_asset_in_folder < 0

\* __error_check, lines 79-80.
ErrorCheckFails(num_asset_in_folder) == num_asset_in_folder < 1

RECURSIVE Repeat(_, _)
Repeat(list, times) ==
    IF times = 0 THEN << >> ELSE list \o Repeat(list, times - 1)

\* Lines 141-150 without the remainder loop.
LoopImportsNoRemainder(list, k) == Repeat(list, k \div Len(list))

\* Lines 141-150: the files loaded, in order, when k >= len(list) >= 1.
LoopImports(list, k) ==
    LET num_loop == k \div Len(list)
        num_remain == k % Len(list)
    IN  Repeat(list, num_loop) \o SubSeq(list, 1, num_remain)

\* random.sample drawing with replacement.
random_sample_with_replacement(list, k) == [ 1..k -> Range(list) ]

\* random.sample(list, k), line 153: k distinct elements, in any order.
random_sample(list, k) == InjectiveSeqs(Range(list), k)

(***************************************************************************)
(* __import_foreground_object_asset, lines 124-155.  input() and           *)
(* sys.exit() of an abort are one step.                                    *)
(***************************************************************************)
ImportForegroundObjectAsset ==
    /\ pc = "import"
    /\ IF CapacityCheckFails(n_particle, num)
       THEN /\ exit_reason' = "CapacityExceeded"
            /\ pc' = "aborted"
            /\ UNCHANGED collection
       ELSE IF ErrorCheckFails(asset_folder)
       THEN /\ exit_reason' = "EmptyAssetPool"
            /\ pc' = "aborted"
            /\ UNCHANGED collection
       ELSE IF asset_folder = 0
       THEN /\ exit_reason' = "ZeroDivisionError"      \* line 141
            /\ pc' = "crashed"
            /\ UNCHANGED collection
       ELSE LET list == foreground_object_path_list(asset_folder)
            IN  /\ IF num >= asset_folder
                   THEN collection' = LoadAll(collection, LoopImports(list, num))
                   ELSE \E selected \in random_sample(list, num) :
                           collection' = LoadAll(collection, selected)
                /\ pc' = "select"
                /\ UNCHANGED exit_reason
    /\ UNCHANGED << init_calls, bpy_data, invocation, count_range, num, n_particle, particle_coordinates,
                    can_see_in_view, matrix_world, matrix_basis, clip_start,
                    clip_end, asset_folder, fg_location, n_particle_prev >>

\* np.random.choice drawing with replacement.
random_choice_with_replacement(a, size) == [ 1..size -> 0..(a - 1) ]

\* np.random.choice(a, size, replace = False), lines 199-201.
random_choice(a, size) == InjectiveSeqs(0..(a - 1), size)

(***************************************************************************)
(* foreground_object_placement_randomize, lines 199-202.                   *)
(***************************************************************************)
SelectLocations ==
    /\ pc = "select"
    /\ IF num > Len(particle_coordinates)
       THEN /\ exit_reason' = "ValueError"              \* line 199
            /\ pc' = "crashed"
            /\ UNCHANGED fg_location
       ELSE /\ \E selected_indices \in
                     random_choice(Len(particle_coordinates), num) :
                  fg_location' =
                     [ i \in 1..num |->
                         particle_coordinates[selected_indices[i] + 1] ]
            /\ pc' = "move"
            /\ UNCHANGED exit_reason
    /\ UNCHANGED << init_calls, bpy_data, invocation, count_range, num, n_particle, particle_coordinates,
                    can_see_in_view, matrix_world, matrix_basis, clip_start,
                    clip_end, asset_folder, collection, n_particle_prev >>

RECURSIVE IndicesWhere(_, _, _)
IndicesWhere(coll, i, types) ==
    IF i > Len(coll) THEN << >>
    ELSE (IF coll[i].type \in types THEN << i >> ELSE << >>)
            \o IndicesWhere(coll, i + 1, types)

\* Lines 207-210 without the type test.
fg_obj_list_any_type(coll) == IndicesWhere(coll, 1, { "ARMATURE", "MESH" })

\* Lines 207-210: the armatures of the collection, as indices into it.
fg_obj_list(coll) == IndicesWhere(coll, 1, { "ARMATURE" })

(***************************************************************************)
(* foreground_object_placement_randomize, lines 206-217.                   *)
(***************************************************************************)
MoveObjects ==
    /\ pc = "move"
    /\ LET list == fg_obj_list(collection)
       IN  IF num > Len(list)
           THEN /\ exit_reason' = "IndexError"          \* line 214
                /\ pc' = "crashed"
                /\ UNCHANGED collection
           ELSE /\ collection' =
                     [ j \in DOMAIN collection |->
                         IF \E i \in 1..num : list[i] = j
                         THEN [ collection[j] EXCEPT !.location =
                                  fg_location[CHOOSE i \in 1..num : list[i] = j] ]
                         ELSE collection[j] ]
                /\ pc' = "done"
                /\ UNCHANGED exit_reason
    /\ UNCHANGED << init_calls, bpy_data, invocation, count_range, num, n_particle, particle_coordinates,
                    can_see_in_view, matrix_world, matrix_basis, clip_start,
                    clip_end, asset_folder, fg_location, n_particle_prev >>

Next ==
    \/ Randint
    \/ SamplingLoopTest
    \/ SamplingPass
    \/ CheckParticleInCamView
    \/ ImportForegroundObjectAsset
    \/ SelectLocations
    \/ MoveObjects

Spec == Init /\ [][Next]_vars

(***************************************************************************)
(* A further call of foreground_object_placement_randomize (line 183) on   *)
(* the randomizer whose previous call returned.  The attributes of the     *)
(* object, the camera and the collection are as that call left them.       *)
(***************************************************************************)
Reinvoke ==
    /\ pc = "done"
    /\ invocation < MaxInvocations
    /\ invocation' = invocation + 1
    /\ pc' = "start"
    /\ UNCHANGED << init_calls, bpy_data,
                    count_range, num, n_particle, particle_coordinates,
                    can_see_in_view, matrix_world, matrix_basis, clip_start,
                    clip_end, asset_folder, collection, fg_location,
                    n_particle_prev, exit_reason >>

ReinvokeNext ==
    \/ Next
    \/ Reinvoke

ReinvokeSpec == Init /\ [][ReinvokeNext]_vars

(***************************************************************************)
(* HumanSDG_000_Initializer.py, lines 104-106 and a further call of init() *)
(* in the same session; no randomizer runs meanwhile.                      *)
(***************************************************************************)
InitializerStart ==
    /\ init_calls = 0
    /\ bpy_data \in PriorData
    /\ invocation = 1
    /\ pc = "start"
    /\ count_range = <<0, 0>>
    /\ num = None
    /\ n_particle = None
    /\ particle_coordinates = << >>
    /\ can_see_in_view = << >>
    /\ matrix_basis = CameraBasis
    /\ matrix_world = CameraBasis
    /\ clip_start = 1
    /\ clip_end = 3
    /\ asset_folder = 0
    /\ collection = << >>
    /\ fg_location = << >>
    /\ n_particle_prev = None
    /\ exit_reason = "none"

Initializer_init ==
    /\ init_calls < MaxInitCalls
    /\ bpy_data' = init(bpy_data)
    /\ init_calls' = init_calls + 1
    /\ UNCHANGED << invocation, pc, count_range, num, n_particle,
                    particle_coordinates, can_see_in_view, matrix_world,
                    matrix_basis, clip_start, clip_end, asset_folder,
                    collection, fg_location, n_particle_prev, exit_reason >>

InitializerSpec == InitializerStart /\ [][Initializer_init]_vars

\* The invocations whose camera is physical, whose cached world transform is
\* current and whose count range holds one value: leaving the retry loop
\* depends on none of the three.
FairInit ==
    /\ Init
    /\ matrix_world = matrix_basis
    /\ clip_start < clip_end
    /\ count_range[1] = count_range[2]

\* The interpreter always takes the next step of the running invocation.
FairSpec == FairInit /\ [][Next]_vars /\ WF_vars(Next)

Terminated == pc \in { "done", "aborted", "crashed" }

(***************************************************************************)
(* Properties.                                                             *)
(***************************************************************************)
AfterImport == pc \in { "aborted", "crashed", "select", "move", "done" }

Loaded == pc \in { "select", "move", "done" }

\* The armatures of the collection, in link order.
IsArmature(obj) == obj.type = "ARMATURE"
Armatures == SelectSeq(collection, IsArmature)

\* How many instances of asset file src the collection holds.
Instances(src) ==
    Cardinality({ i \in DOMAIN Armatures : Armatures[i].source = src })

\* A point is inside the view of a camera placed at cam: its normalized
\* coordinates n/d satisfy 0 < n/d < 1, that is 0 < n*d < d*d, and its depth
\* lies strictly between the clip distances.
StrictlyInUnit(f) == 0 < f[1] * f[2] /\ f[1] * f[2] < f[2] * f[2]

VisibleFrom(cam, p) ==
    LET co == world_to_camera_view(cam, p)
    IN  /\ StrictlyInUnit(co.x)
        /\ StrictlyInUnit(co.y)
        /\ clip_start < co.z
        /\ co.z < clip_end

\* C1: whenever the requested count is greater than the number of visible
\* candidate points, the pass is aborted at the capacity check with the
\* CapacityExceeded message, and at that moment nothing has been loaded into
\* the human collection and no position has been chosen or assigned.
C1_CapacityAbort ==
    (AfterImport /\ num > n_particle) =>
        /\ pc = "aborted"
        /\ exit_reason = "CapacityExceeded"
        /\ collection = << >>
        /\ fg_location = << >>

C1_Witness ==
    /\ pc = "aborted"
    /\ exit_reason = "CapacityExceeded"
    /\ n_particle >= 1
    /\ num > n_particle
    /\ asset_folder >= 1

\* C2: after a pass that passed the capacity check, the chosen positions are
\* exactly num in number, pairwise distinct, each one a member of the list the
\* visibility filter produced, and each one visible from the camera.
C2_ChosenPositions ==
    pc \in { "move", "done" } =>
        /\ Len(fg_location) = num
        /\ \A i, j \in 1..Len(fg_location) :
              fg_location[i] = fg_location[j] => i = j
        /\ \A i \in 1..Len(fg_location) :
              /\ fg_location[i] \in Range(can_see_in_view)
              /\ VisibleFrom(matrix_basis, fg_location[i])

C2_Witness ==
    /\ pc = "done"
    /\ num = 2
    /\ n_particle = 3
    /\ fg_location[1] # can_see_in_view[1]

\* C3: when the requested count is greater than the pool size, file number
\* src of the pool (in pool order) is instantiated num div pool times, plus
\* once more if src <= num mod pool; the instances number num in total and
\* the per-file numbers differ by at most one.
C3_CyclicReuse ==
    (Loaded /\ num > asset_folder) =>
        /\ \A src \in 1..asset_folder :
              Instances(src) =
                 (num \div asset_folder)
                    + (IF src <= num % asset_folder THEN 1 ELSE 0)
        /\ Len(Armatures) = num
        /\ \A a, b \in 1..asset_folder :
              Instances(a) - Instances(b) <= 1

C3_Witness ==
    /\ pc = "done"
    /\ num = 3
    /\ asset_folder = 2
    /\ Instances(1) = 2
    /\ Instances(2) = 1

\* C4: when the requested count is at most the pool size (the equal case
\* included), exactly num files are instantiated, each file of the pool at
\* most once, and every instance comes from a file of the pool.
C4_DistinctSources ==
    (Loaded /\ num <= asset_folder) =>
        /\ Len(Armatures) = num
        /\ \A src \in 1..asset_folder : Instances(src) <= 1
        /\ \A i \in DOMAIN Armatures : Armatures[i].source \in 1..asset_folder

C4_Witness ==
    /\ pc = "done"
    /\ num = 2
    /\ asset_folder = 3
    /\ Armatures[1].source = 3

\* C5 as stated: with an empty asset pool the invocation ends aborted with
\* the EmptyAssetPool message, nothing instantiated, no position assigned.
C5_Original ==
    (asset_folder = 0 /\ Terminated) =>
        /\ pc = "aborted"
        /\ exit_reason = "EmptyAssetPool"
        /\ collection = << >>
        /\ fg_location = << >>

\* C5, amended: with an empty asset pool the invocation never gets past the
\* import step; it ends aborted, with nothing instantiated and no position
\* assigned, and the message is EmptyAssetPool when the requested count does
\* not exceed the number of visible candidates and CapacityExceeded when it
\* does (the capacity check comes first).
C5_EmptyPoolAbort ==
    (asset_folder = 0 /\ AfterImport) =>
        /\ pc = "aborted"
        /\ exit_reason =
              (IF num > n_particle THEN "CapacityExceeded" ELSE "EmptyAssetPool")
        /\ collection = << >>
        /\ fg_location = << >>

C5_Witness ==
    /\ asset_folder = 0
    /\ pc = "aborted"
    /\ exit_reason = "EmptyAssetPool"
    /\ num >= 1
    /\ n_particle >= num

\* C6 as stated: every invocation eventually terminates, with a placement
\* result or a failure.
C6_Original == <>Terminated

\* C6, amended: an invocation terminates once a sampling pass has yielded at
\* least one point; the retry loop has no cap, so nothing ends it while the
\* passes yield no point.
C6_TerminatesOnceSampled ==
    (pc = "while" /\ n_particle > 0) ~> Terminated

\* A sampling pass yielded two points and the invocation ran to its end.
C6_Witness ==
    /\ pc = "done"
    /\ n_particle_prev = 2

Degenerate == clip_start >= clip_end

\* C7 as stated: with near clip >= far clip no sampling pass ever begins and
\* the invocation ends with the DegenerateCamera condition.
C7_Original ==
    Degenerate =>
        /\ pc # "sample"
        /\ n_particle = None
        /\ (Terminated => exit_reason = "DegenerateCamera")

\* C7, amended: near clip >= far clip is not detected before sampling.  The
\* sampling passes and the filter run, the filter accepts no point, and an
\* invocation that requested at least one object then ends aborted at the
\* capacity check with the CapacityExceeded message and nothing loaded.
C7_DegenerateCamera ==
    (Degenerate /\ (pc = "import" \/ AfterImport)) =>
        /\ n_particle_prev >= 1
        /\ n_particle = 0
        /\ can_see_in_view = << >>
        /\ (AfterImport /\ num >= 1 =>
               /\ pc = "aborted"
               /\ exit_reason = "CapacityExceeded"
               /\ collection = << >>)

C7_Witness ==
    /\ clip_start = clip_end
    /\ pc = "aborted"
    /\ exit_reason = "CapacityExceeded"
    /\ n_particle_prev = 3
    /\ n_particle = 0

\* C8: the filter leaves in particle_coordinates exactly the points of its
\* input, unchanged and in their input order, whose camera coordinates under
\* the camera's current transform satisfy 0 < x < 1, 0 < y < 1 and
\* near < z < far, all strictly; the count is the length of that sequence.
C8_VisibleNow(p) == VisibleFrom(matrix_basis, p)

C8_FilterExact ==
    [][ pc = "filter" =>
          /\ particle_coordinates' = SelectSeq(particle_coordinates, C8_VisibleNow)
          /\ n_particle' = Len(particle_coordinates') ]_vars

\* Three points went in; the one on the frame's edge and the one on the near
\* clip plane were dropped and the one inside was kept.
C8_Witness ==
    /\ pc = "import"
    /\ n_particle_prev = 3
    /\ particle_coordinates = << <<0, 0, 3>> >>
    /\ matrix_world = matrix_basis
    /\ clip_start = 1
    /\ clip_end = 3

\* C9 as stated: no field of the camera is ever written.
C9_Original == [][camera' = camera]_vars

\* C9, amended: the pass writes one field of the camera: the filter sets
\* matrix_world to matrix_basis.  Nothing else writes matrix_world, and
\* matrix_basis and the clip distances keep their values.
C9_CameraWrites ==
    [][ /\ matrix_basis' = matrix_basis
        /\ clip_start' = clip_start
        /\ clip_end' = clip_end
        /\ (pc = "filter" => matrix_world' = matrix_basis)
        /\ (pc # "filter" => matrix_world' = matrix_world) ]_vars

\* The filter is reached with a cached world transform that differs from the
\* basis, and its step changes matrix_world.
C9_Witness ==
    /\ pc = "filter"
    /\ matrix_world # matrix_basis
    /\ ENABLED (CheckParticleInCamView /\ matrix_world' # matrix_world)

\* C10: after a successful pass the collection holds num armatures, the i-th
\* of them (in link order) is at fg_location[i], so they occupy num pairwise
\* distinct positions and none is left without a position.
C10_Positions ==
    pc = "done" =>
        /\ Len(Armatures) = num
        /\ \A i \in DOMAIN Armatures :
              /\ i <= Len(fg_location)
              /\ Armatures[i].location = fg_location[i]
              /\ Armatures[i].location # << >>
        /\ \A i, j \in DOMAIN Armatures :
              Armatures[i].location = Armatures[j].location => i = j

\* Two files were loaded, the first with its mesh linked before its
\* armature, and both armatures were moved.
C10_Witness ==
    /\ pc = "done"
    /\ num = 2
    /\ collection[1].type = "MESH"
    /\ Armatures[1].location # << >>
    /\ Armatures[2].location # << >>

\* How the steps after the draw use num: the capacity check aborts when it
\* exceeds the visible count, the binder loads num armatures, num positions
\* are chosen and num objects are moved.
C11_Uses ==
    /\ (AfterImport /\ num > n_particle => pc = "aborted")
    /\ (Loaded => Len(Armatures) = num)
    /\ (pc \in { "move", "done" } => Len(fg_location) = num)
    /\ (pc = "done" =>
          Cardinality({ j \in DOMAIN collection :
                          collection[j].location # << >> }) = num)

\* C11: the requested count is drawn by the first step of the invocation and
\* by no other, it lies in the configured range (both ends included), no later
\* step changes it, and the capacity check, the binder, the selection and the
\* moves all work with that value; it is never lowered to the visible count
\* or to the pool size.
C11_CountFixed ==
    [][ /\ count_range' = count_range
        /\ (pc = "start" =>
              count_range[1] <= num' /\ num' <= count_range[2])
        /\ (pc # "start" => num' = num)
        /\ C11_Uses' ]_vars

\* The larger value of the range was drawn, it exceeds the pool size and it
\* equals the visible count; the pass completed with it.
C11_Witness ==
    /\ pc = "done"
    /\ count_range = <<1, 2>>
    /\ num = 2
    /\ n_particle = 2
    /\ asset_folder = 1

\* C14: after a sampling pass that returned no point the loop test sends the
\* invocation to another sampling pass, and recentering and filtering start
\* only from the loop test, with a count of at least one that is the length
\* of the sequence the sampler returned.
C14_RetryUntilPoints ==
    [][ /\ (pc = "while" /\ (n_particle = None \/ n_particle = 0) =>
              pc' = "sample")
        /\ (pc' = "filter" =>
              /\ pc = "while"
              /\ n_particle >= 1
              /\ n_particle = Len(particle_coordinates)
              /\ particle_coordinates \in SamplingResults
              /\ Len(particle_coordinates') = n_particle) ]_vars

\* A sampling pass returned no point and the next pass is about to run.
C14_Witness ==
    /\ pc = "sample"
    /\ n_particle = 0
    /\ particle_coordinates = << >>

\* C13: in a call after the first, recentering starts from what a sampling
\* pass of that call returned (so those samples are recentered once), and the
\* filter leaves as the visible list exactly the visible ones among that
\* call's recentered samples, the visible count being its length; nothing of
\* the previous call's count, coordinates or visible list takes part.
C13_NoCarryOver ==
    [][ invocation >= 2 =>
          /\ (pc = "while" /\ pc' = "filter" =>
                /\ particle_coordinates \in SamplingResults
                /\ n_particle = Len(particle_coordinates))
          /\ (pc = "filter" =>
                /\ can_see_in_view' =
                      AppendVisible(particle_coordinates, << >>,
                                    matrix_world', clip_start, clip_end)
                /\ n_particle' = Len(can_see_in_view')
                /\ n_particle' <= n_particle_prev) ]_vars

\* The three collections init() creates.
ThreeCollections ==
    { "BackgroundObjectCollection", "HumanCollection", "OccluderCollection" }

\* The data blocks a call of init() leaves, given the text blocks and the
\* screens it found.
EstablishedBlocks(texts, screens) ==
    [ k \in Kinds |->
        CASE k = "scenes" -> { "Scene" }
          [] k = "texts" -> texts
          [] k = "screens" -> screens
          [] k = "worlds" -> { "World" }
          [] k = "cameras" -> { "Camera" }
          [] k = "objects" -> { "Camera" }
          [] k = "collections" -> ThreeCollections
          [] k = "meshes" -> { } ]

\* The camera object, the world and the three collections are those of the
\* scene, and the render settings are the Initializer's.
EstablishedScene(d) ==
    /\ d.scene.camera = "Camera"
    /\ d.object_data = [ o \in { "Camera" } |-> << "cameras", "Camera" >> ]
    /\ d.location = [ o \in { "Camera" } |-> <<0, 0, 8>> ]
    /\ d.lens = [ b \in { "Camera" } |-> 35 ]
    /\ d.scene.world = "World"
    /\ d.world_keys = [ w \in { "World" } |-> { "category_id" } ]
    /\ d.scene.objects = { "Camera" }
    /\ d.scene.children = ThreeCollections
    /\ d.scene.keys = { }
    /\ << d.scene.resolution_x, d.scene.resolution_y >> = << 640, 480 >>
    /\ << d.scene.engine, d.scene.device >> = << "CYCLES", "GPU" >>

====
